---- MODULE Spec2Model ----
(***************************************************************************)
(* Model of src/skit.py: the Slack Block Kit builder BlockKit and its      *)
(* nested value object BlockKit.HelpCentral.                               *)
(*                                                                         *)
(* Strings are sequences of one-character strings, so that slicing,        *)
(* html.unescape and the link regular expression act on characters.  The   *)
(* fixed fragments of a template (an f-string's literal parts) are single  *)
(* tokens; characters outside ASCII are transliterated in them (the em     *)
(* dash as "--", the bullet as "*", the thumbs as "(+1)" and "(-1)").      *)
(* Python's None is the value None below, which is no string of            *)
(* characters; an absent block list is NoneBlocks.                         *)
(***************************************************************************)
EXTENDS Integers, Sequences, FiniteSets, TLC

VARIABLES
  thread, question, user_id, block_body, channel_id, additional_details,
  bot_id, llm_answer, llm_link, channel_name,       \* the fields of BlockKit
  ticket_number, ticket_url, hc_user_id,            \* the fields of HelpCentral
  op,                                               \* the method called last
  raw,                                              \* its argument, if it takes one
  ret,                                              \* what it returned
  exc                                               \* the exception it raised, or NoExc

builder == <<thread, question, user_id, block_body, channel_id,
             additional_details, bot_id, llm_answer, llm_link, channel_name>>
helpcentral == <<ticket_number, ticket_url, hc_user_id>>
vars == <<builder, helpcentral, op, raw, ret, exc>>

----------------------------------------------------------------------------
(* Values *)

None == <<"None">>
NoneBlocks == <<[type |-> "None"]>>
NoExc == "none"

\* str(x) as an f-string renders it
Str(x) == IF x = None THEN <<"N", "o", "n", "e">> ELSE x

\* Python truthiness of an Optional[str] and of an Optional[list]
Truthy(x) == x # None /\ x # <<>>
TruthyBlocks(b) == b # NoneBlocks /\ b # <<>>

Fill(n) == [i \in 1..n |-> "x"]
Ix(n) == [i \in 1..n |-> i]

\* does the word w stand in s at position i
IsAt(s, i, w) ==
  /\ i >= 1
  /\ i + Len(w) - 1 <= Len(s)
  /\ \A k \in 1..Len(w) : s[i + k - 1] = w[k]

SlackLimit == 3000

\* the slice left out
Slice_NoCut(s) == s

\* s[:3000]
Slice(s) == IF Len(s) <= SlackLimit THEN s ELSE SubSeq(s, 1, SlackLimit)

----------------------------------------------------------------------------
(* html.unescape, on the character references &amp; &lt; &gt;.  As in      *)
(* Python the trailing semicolon is optional for these three names, and a  *)
(* reference is replaced once, left to right: the "&" a replacement        *)
(* produces is not read again.                                             *)

EntName(s, i) ==
  IF s[i] # "&" THEN <<>>
  ELSE IF IsAt(s, i + 1, <<"a", "m", "p">>) THEN <<"a", "m", "p">>
  ELSE IF IsAt(s, i + 1, <<"l", "t">>) THEN <<"l", "t">>
  ELSE IF IsAt(s, i + 1, <<"g", "t">>) THEN <<"g", "t">>
  ELSE <<>>

\* the length of the reference that starts at i, 0 when none does
EntLen(s, i) ==
  LET n == Len(EntName(s, i))
  IN  IF n = 0 THEN 0
      ELSE IF IsAt(s, i + 1 + n, <<";">>) THEN n + 2 ELSE n + 1

EntChar(name) ==
  IF name = <<"a", "m", "p">> THEN "&"
  ELSE IF name = <<"l", "t">> THEN "<"
  ELSE ">"

unescape(s) ==
  LET amps == {i \in 1..Len(s) : s[i] = "&" /\ EntLen(s, i) > 0}
      tail == UNION {(i + 1)..(i + EntLen(s, i) - 1) : i \in amps}
      keep == SelectSeq(Ix(Len(s)), LAMBDA j : j \notin tail)
  IN  IF amps = {} THEN s
      ELSE [k \in 1..Len(keep) |->
              IF keep[k] \in amps THEN EntChar(EntName(s, keep[k]))
              ELSE s[keep[k]]]

----------------------------------------------------------------------------
(* HTTP_LINK_RE = https?://[^\s)>\]]+ with re.IGNORECASE, and findall *)

Lower(c) ==
  IF c = "H" THEN "h" ELSE IF c = "T" THEN "t" ELSE IF c = "P" THEN "p"
  ELSE IF c = "S" THEN "s" ELSE c

\* the characters the class [^\s)>\]] excludes
IsStop(c) == c \in {" ", "\n", "\t", ")", ">", "]"}

IsAtNoCase(s, i, w) ==
  /\ i + Len(w) - 1 <= Len(s)
  /\ \A k \in 1..Len(w) : Lower(s[i + k - 1]) = w[k]

\* the length of the scheme "http://" or "https://" standing at i, else 0
SchemeLen(s, i) ==
  IF Lower(s[i]) # "h" THEN 0
  ELSE IF IsAtNoCase(s, i, <<"h", "t", "t", "p", ":", "/", "/">>) THEN 7
  ELSE IF IsAtNoCase(s, i, <<"h", "t", "t", "p", "s", ":", "/", "/">>) THEN 8
  ELSE 0

\* the pattern matches at i: a scheme and at least one more character
MatchesAt(s, i) ==
  LET n == SchemeLen(s, i)
  IN  n > 0 /\ i + n <= Len(s) /\ ~IsStop(s[i + n])

RECURSIVE SortedSeq(_)
SortedSeq(S) ==
  IF S = {} THEN <<>>
  ELSE LET m == CHOOSE x \in S : \A y \in S : x <= y
       IN  <<m>> \o SortedSeq(S \ {m})

\* findall: the leftmost match, then the leftmost match after its end, ...
\* A match runs up to the next excluded character, so a position where the
\* pattern matches starts a match of findall unless an earlier such position
\* reaches it without an excluded character in between.
extract_links(text) ==
  IF ~Truthy(text) THEN <<>>
  ELSE
    LET cand   == {i \in 1..Len(text) : MatchesAt(text, i)}
        stops  == {i \in 1..Len(text) : IsStop(text[i])}
        starts == {i \in cand :
                     \A j \in cand : j < i => \E t \in stops : j < t /\ t < i}
        End(i) == LET after == {t \in stops : t > i}
                  IN  IF after = {} THEN Len(text)
                      ELSE (CHOOSE t \in after : \A u \in after : t <= u) - 1
        order  == SortedSeq(starts)
    IN  [k \in 1..Len(order) |-> SubSeq(text, order[k], End(order[k]))]

----------------------------------------------------------------------------
(* The block helpers *)

_mk_section(text) ==
  [type |-> "section", text |-> [type |-> "mrkdwn", text |-> text]]

\* style is None for a button without one: the key is then left out
_mk_button(text, action_id, style, value) ==
  LET btn == [type |-> "button",
              text |-> [type |-> "plain_text", text |-> text, emoji |-> TRUE],
              value |-> value,
              action_id |-> action_id]
  IN  IF Truthy(style) THEN btn @@ [style |-> style] ELSE btn

_divider == [type |-> "divider"]

RECURSIVE Bullets(_)
\* "\n".join(f"* {u}" for u in items)
Bullets(items) ==
  IF items = <<>> THEN <<>>
  ELSE IF Len(items) = 1 THEN <<"* ">> \o items[1]
  ELSE <<"* ">> \o items[1] \o <<"\n">> \o Bullets(Tail(items))

LinkHintHeader == "*The following link(s) might help you:*\n"

\* every link listed, not the first three
_link_hint_blocks_All(links) ==
  IF links = <<>> THEN <<>>
  ELSE << _mk_section(<<LinkHintHeader>> \o Bullets(links)) >>

_link_hint_blocks(links) ==
  IF links = <<>> THEN <<>>
  ELSE LET items == SubSeq(links, 1, IF Len(links) < 3 THEN Len(links) ELSE 3)
       IN  << _mk_section(<<LinkHintHeader>> \o Bullets(items)) >>

FeedbackPrompt == <<"Did you find our suggestion satisfactory?">>

feedback_block_kit ==
  << _divider,
     _mk_section(FeedbackPrompt),
     [type |-> "actions",
      elements |-> << _mk_button(<<"(+1)">>, "vertex_positive", <<"primary">>, "value"),
                      _mk_button(<<"(-1)">>, "vertex_negative", <<"danger">>, "value") >>] >>

thread_feedback_block_kit ==
  << _divider,
     _mk_section(FeedbackPrompt),
     [type |-> "actions",
      elements |-> << _mk_button(<<"(+1)">>, "thread_positive", <<"primary">>, "value"),
                      _mk_button(<<"(-1)">>, "thread_negative", <<"danger">>, "value") >>] >>

NoSuggestion(uid) ==
  <<"Sorry, <@">> \o Str(uid) \o <<"> -- no suggestions have been found.">>

Preamble ==
  <<"Thank you for submitting a request with Cloud Tech. Based on your query, the following answer has been found:">>

\* the feedback buttons appended to the no-suggestion message too
build_answer_blocks_FeedbackAlways(answer_in, uid) ==
  IF ~Truthy(answer_in)
  THEN [blocks |-> << _mk_section(NoSuggestion(uid)) >> \o feedback_block_kit]
  ELSE LET answer == Slice(unescape(answer_in))
           links  == extract_links(answer)
       IN  [blocks |-> << _mk_section(Preamble), _mk_section(answer) >>
                       \o _link_hint_blocks(links)
                       \o feedback_block_kit]

\* the links taken from the whole decoded answer, not from the slice
build_answer_blocks_RawLinks(answer_in, uid) ==
  IF ~Truthy(answer_in) THEN [blocks |-> << _mk_section(NoSuggestion(uid)) >>]
  ELSE LET answer == Slice(unescape(answer_in))
           links  == extract_links(unescape(answer_in))
       IN  [blocks |-> << _mk_section(Preamble), _mk_section(answer) >>
                       \o _link_hint_blocks(links)
                       \o feedback_block_kit]

build_answer_blocks(answer_in, uid) ==
  IF ~Truthy(answer_in) THEN [blocks |-> << _mk_section(NoSuggestion(uid)) >>]
  ELSE LET answer == Slice(unescape(answer_in))
           links  == extract_links(answer)
       IN  [blocks |-> << _mk_section(Preamble), _mk_section(answer) >>
                       \o _link_hint_blocks(links)
                       \o feedback_block_kit]

\* the link hints forgotten in the thread version
thread_block_kit_NoLinks(answer_in, uid) ==
  IF ~Truthy(answer_in) THEN << _mk_section(NoSuggestion(uid)) >>
  ELSE << _mk_section(Slice(unescape(answer_in))) >> \o thread_feedback_block_kit

thread_block_kit(answer_in, uid) ==
  IF ~Truthy(answer_in) THEN << _mk_section(NoSuggestion(uid)) >>
  ELSE LET answer == Slice(unescape(answer_in))
           links  == extract_links(answer)
       IN  << _mk_section(answer) >>
           \o _link_hint_blocks(links)
           \o thread_feedback_block_kit

----------------------------------------------------------------------------
(* feedback_update_block: the loop over block_body edits each item in      *)
(* place.  item["text"]["text"] raises KeyError when the text object of a  *)
(* section has no "text" key; the items before it are then already edited  *)
(* and nothing is returned.                                                *)

\* item.get("type") == "section" and "text" in item
IsTextSection(item) ==
  /\ "type" \in DOMAIN item
  /\ item.type = "section"
  /\ "text" \in DOMAIN item

\* the lookup item["text"]["text"] fails
Raises(item) == IsTextSection(item) /\ "text" \notin DOMAIN item.text

\* every block that carries a text is edited, whatever its type
UpdateItem_AnyText(item) ==
  IF "text" \in DOMAIN item /\ "text" \in DOMAIN item.text
  THEN [item EXCEPT !.text = [@ EXCEPT !.text = Slice(unescape(@))]]
  ELSE item

UpdateItem(item) ==
  IF IsTextSection(item)
  THEN [item EXCEPT !.text = [@ EXCEPT !.text = Slice(unescape(@))]]
  ELSE item

\* the index of the first item the loop fails on, 0 when it fails on none
FirstRaise(body) ==
  LET bad == {i \in 1..Len(body) : Raises(body[i])}
  IN  IF bad = {} THEN 0 ELSE CHOOSE i \in bad : \A j \in bad : i <= j

\* [ret, body, exc]: the value returned, block_body afterwards, the exception
feedback_update_block(body, answer_in, uid) ==
  IF ~TruthyBlocks(body)
  THEN [ret |-> build_answer_blocks(answer_in, uid).blocks,
        body |-> body, exc |-> NoExc]
  ELSE LET stop == FirstRaise(body)
           updated == [i \in 1..Len(body) |->
                         IF stop = 0 \/ i < stop THEN UpdateItem(body[i])
                         ELSE body[i]]
       IN  IF stop = 0
           THEN [ret |-> updated, body |-> updated, exc |-> NoExc]
           ELSE [ret |-> None, body |-> updated, exc |-> "KeyError"]

feedback_update_block_session(body, answer_in, uid) ==
  feedback_update_block(body, answer_in, uid)

----------------------------------------------------------------------------
(* Follow-ups *)

self_help_link_block ==
  << _mk_section(<<"Thank you for your feedback. Alternatively, you may also find the following self-help documentation useful:\n<https://cloudtech.apple.com/docs|CloudTech Docs>">>) >>

followup_block_kit(bid) ==
  << _mk_section(<<"Not clear yet? I can guide you one step at a time -- just @mention <@">>
                 \o Str(bid) \o <<"> with your follow-up questions.">>) >>

followup_delay_message(bid) ==
  << _mk_section(<<"Did you find the suggestion satisfactory? If not, you can ask me more questions by sending me an @mention <@">>
                 \o Str(bid) \o <<">.">>) >>

----------------------------------------------------------------------------
(* BlockKit.HelpCentral *)

open_ticket_cta ==
  [blocks |->
     << _mk_section(<<"Hello. If you are looking for assistance from CloudTech/CSE Support, please click the button to open a ticket; someone will follow up with you.">>),
        [type |-> "actions",
         elements |-> << _mk_button(<<"Open support request">>, "vertex_raise_ticket", None, "value") >>] >>]

clicked_ticket_button(uid) ==
  [blocks |-> << _mk_section(<<"<@">> \o Str(uid) \o <<"> clicked on *Open Support Request*">>) >>]

ticket_creation_followup ==
  [blocks |->
     << [type |-> "rich_text",
         elements |-> << [type |-> "rich_text_section",
                          elements |-> << [type |-> "text",
                                           text |-> <<"Creating your ticket... one moment please.">>] >>] >>] >>]

TicketCreated == "The following HelpCentral ticket has been created on your behalf <"
TicketFollowUp == "> -- someone from our team will follow up.\nSee SLA details: <https://cloudtech.apple.com/docs/sla|SLA link>"
TicketFailed == "There seems to be a problem while raising the ticket. Please try again after some time or contact the development team."

\* "is not None" in place of truthiness: an empty URL counts as a ticket
ticket_details_NoneOnly(url, number) ==
  LET txt == IF url # None
             THEN <<TicketCreated>> \o Str(url) \o <<"|">> \o Str(number) \o <<TicketFollowUp>>
             ELSE <<TicketFailed>>
  IN  [blocks |-> << _mk_section(txt) >>]

ticket_details(url, number) ==
  LET txt == IF Truthy(url)
             THEN <<TicketCreated>> \o Str(url) \o <<"|">> \o Str(number) \o <<TicketFollowUp>>
             ELSE <<TicketFailed>>
  IN  [blocks |-> << _mk_section(txt) >>]

hc_outage ==
  [blocks |-> << _mk_section(<<"*Please be advised:* Due to a scheduled maintenance, HelpCentral will be offline from Friday, 01/31/2025 8:00 PM PT to Saturday, 02/01/2025.">>) >>]

----------------------------------------------------------------------------
(* Routing.  A route key or label is a string of one token. *)

mapping ==
  [k \in {"help-gcp-apple", "help-aws-apple", "help-oci-apple",
          "help-icloud-apple", "help-alicloud", "help-linux-found",
          "help-rubix", "help-spinclou", "Rubix", "GCP", "AWS", "OCI",
          "Alicloud"} |->
     CASE k = "help-gcp-apple"    -> "GCP"
       [] k = "help-aws-apple"    -> "AWS"
       [] k = "help-oci-apple"    -> "OCI"
       [] k = "help-icloud-apple" -> "iCloud"
       [] k = "help-alicloud"     -> "Alicloud"
       [] k = "help-linux-found"  -> "Linux Foundation"
       [] k = "help-rubix"        -> "Rubix"
       [] k = "help-spinclou"     -> "Spincloud"
       [] OTHER                   -> k]

IsKey(r) == r # None /\ Len(r) = 1 /\ r[1] \in DOMAIN mapping

\* mapping.get(raw, "General"): an unknown key is not passed through
set_channel_name_General(r) ==
  IF IsKey(r) THEN <<mapping[r[1]]>> ELSE <<"General">>

\* the new channel_name: mapping.get(raw, raw or "General")
set_channel_name(r) ==
  IF IsKey(r) THEN <<mapping[r[1]]>>
  ELSE IF Truthy(r) THEN r
  ELSE <<"General">>

----------------------------------------------------------------------------
(* The values the caller constructs the objects with *)

Http == <<"h", "t", "t", "p", ":", "/", "/">>
Amp == <<"&", "a", "m", "p", ";">>

\* the most links an enumerated answer holds
MaxLinks == 4

Host(k) == CASE k = 1 -> "a" [] k = 2 -> "b" [] k = 3 -> "a" [] k = 4 -> "d" [] OTHER -> "e"

RECURSIVE LinkList(_)
\* n links separated by blanks; the third repeats the first
LinkList(n) ==
  IF n = 0 THEN <<>>
  ELSE IF n = 1 THEN Http \o <<Host(1)>>
  ELSE LinkList(n - 1) \o <<" ">> \o Http \o <<Host(n)>>

ShortAnswers ==
  { <<"x">> \o Amp \o <<"x", " ", "(">> \o Http \o <<"a", ")">>,
    <<"H", "T", "T", "P", "S", ":", "/", "/", "b", "\n", "h", "t", "t", "p", "s", ":", "/", "/", " ", "x">>,
    Http \o <<"a", "&", "g", "t", ";", "b">>,
    <<"h", "t", "t", "p", "&", "l", "t", ";">> }
  \cup { LinkList(n) : n \in 2..MaxLinks }

LongAnswers ==
  { Fill(SlackLimit + 1),
    Amp \o Fill(SlackLimit - 4),
    Amp \o Fill(SlackLimit),
    Fill(SlackLimit) \o <<" ">> \o Http \o <<"a">>,
    Fill(SlackLimit - 9) \o <<" ">> \o Http \o <<"a", "b", "d">> }

Answers == {None, <<>>} \cup ShortAnswers \cup LongAnswers

Ids == {None, <<"U", "1">>}

FieldsSection == [type |-> "section", fields |-> << [type |-> "mrkdwn", text |-> Amp] >>]
HeaderBlock == [type |-> "header", text |-> [type |-> "plain_text", text |-> Amp]]
UntypedBlock == [text |-> [type |-> "mrkdwn", text |-> Amp]]
NoTextSection == [type |-> "section", text |-> [type |-> "mrkdwn"]]

Bodies ==
  { << _mk_section(<<"a", " ">> \o Amp \o <<"l", "t", ";", " ", "b">>), _divider >>
       \o thread_feedback_block_kit,
    << _mk_section(Amp \o Fill(SlackLimit)), _divider, _mk_section(Amp \o <<"x">>) >>,
    << FieldsSection, HeaderBlock, UntypedBlock, _mk_section(<<"x">>) >>,
    << _mk_section(<<"x", "&", "g", "t", ";">>), _divider, NoTextSection,
       _mk_section(<<"&", "l", "t", ";">>) >> }

RouteKeys ==
  {None, <<>>, <<"help-unknown">>} \cup {<<k>> : k \in DOMAIN mapping}

TicketUrl == Http \o <<"h", "c", "/", "1">>
TicketNumber == <<"H", "C", "-", "1">>

----------------------------------------------------------------------------
(* Init: the objects as constructed.  One group of fields varies at a time *)
(* around the dataclass defaults: the answer builders read llm_answer and  *)
(* user_id, the update reads block_body (and llm_answer, user_id when it   *)
(* is empty), the follow-ups read bot_id, HelpCentral its own fields.      *)

\* the opaque fields and the ticket as the dataclass defaults leave them
NoContext ==
  /\ thread = None /\ question = None /\ channel_id = None
  /\ additional_details = None /\ bot_id = None /\ llm_link = None
NoTicket == ticket_number = None /\ ticket_url = None /\ hc_user_id = None

\* the same fields, each given a value
SomeContext ==
  /\ thread = <<"T", "1">> /\ question = <<"q">> /\ channel_id = <<"C", "1">>
  /\ additional_details = <<"d">> /\ bot_id = <<"B", "1">>
  /\ llm_link = Http \o <<"a">>

Init ==
  /\ channel_name = None
  /\ op = "__init__" /\ raw = None /\ ret = None /\ exc = NoExc
  /\ \/ /\ llm_answer \in Answers /\ user_id = <<"U", "1">>
        /\ block_body = NoneBlocks
        /\ NoContext /\ NoTicket
     \/ /\ llm_answer \in {None, <<>>} /\ user_id \in Ids
        /\ block_body \in {NoneBlocks, <<>>}
        /\ (NoContext \/ SomeContext)
        /\ NoTicket
     \/ /\ block_body \in Bodies
        /\ llm_answer = Http \o <<"a">>
        /\ user_id = None
        /\ NoContext /\ NoTicket
     \/ /\ ticket_url \in {None, <<>>, TicketUrl}
        /\ ticket_number \in {None, TicketNumber}
        /\ hc_user_id \in Ids
        /\ llm_answer = None /\ user_id = None /\ block_body = NoneBlocks
        /\ NoContext

----------------------------------------------------------------------------
(* One action per method *)

\* the fields no method assigns
inert == <<thread, question, user_id, channel_id, additional_details, bot_id,
           llm_answer, llm_link>>

Returns(name, value) ==
  op' = name /\ raw' = None /\ ret' = value /\ exc' = NoExc

Call_set_channel_name(r) ==
  /\ channel_name' = set_channel_name(r)
  /\ op' = "set_channel_name" /\ raw' = r /\ ret' = None /\ exc' = NoExc
  /\ UNCHANGED <<inert, block_body, helpcentral>>

Call_feedback_block_kit ==
  /\ Returns("feedback_block_kit", feedback_block_kit)
  /\ UNCHANGED <<builder, helpcentral>>

Call_thread_feedback_block_kit ==
  /\ Returns("thread_feedback_block_kit", thread_feedback_block_kit)
  /\ UNCHANGED <<builder, helpcentral>>

\* the links found are stored in llm_link
Call_build_answer_blocks_StoresLink ==
  /\ Returns("build_answer_blocks", build_answer_blocks(llm_answer, user_id))
  /\ llm_link' = IF Truthy(llm_answer)
                 THEN Bullets(extract_links(Slice(unescape(llm_answer))))
                 ELSE llm_link
  /\ UNCHANGED <<thread, question, user_id, block_body, channel_id,
                 additional_details, bot_id, llm_answer, channel_name, helpcentral>>

Call_build_answer_blocks ==
  /\ Returns("build_answer_blocks", build_answer_blocks(llm_answer, user_id))
  /\ UNCHANGED <<builder, helpcentral>>

Call_thread_block_kit ==
  /\ Returns("thread_block_kit", thread_block_kit(llm_answer, user_id))
  /\ UNCHANGED <<builder, helpcentral>>

Call_feedback_update_block ==
  LET r == feedback_update_block(block_body, llm_answer, user_id)
  IN  /\ op' = "feedback_update_block" /\ raw' = None
      /\ ret' = r.ret /\ exc' = r.exc
      /\ block_body' = r.body
      /\ UNCHANGED <<inert, channel_name, helpcentral>>

Call_feedback_update_block_session ==
  LET r == feedback_update_block_session(block_body, llm_answer, user_id)
  IN  /\ op' = "feedback_update_block_session" /\ raw' = None
      /\ ret' = r.ret /\ exc' = r.exc
      /\ block_body' = r.body
      /\ UNCHANGED <<inert, channel_name, helpcentral>>

Call_self_help_link_block ==
  /\ Returns("self_help_link_block", self_help_link_block)
  /\ UNCHANGED <<builder, helpcentral>>

Call_followup_block_kit ==
  /\ Returns("followup_block_kit", followup_block_kit(bot_id))
  /\ UNCHANGED <<builder, helpcentral>>

Call_followup_delay_message ==
  /\ Returns("followup_delay_message", followup_delay_message(bot_id))
  /\ UNCHANGED <<builder, helpcentral>>

Call_open_ticket_cta ==
  /\ Returns("open_ticket_cta", open_ticket_cta)
  /\ UNCHANGED <<builder, helpcentral>>

Call_clicked_ticket_button ==
  /\ Returns("clicked_ticket_button", clicked_ticket_button(hc_user_id))
  /\ UNCHANGED <<builder, helpcentral>>

Call_ticket_creation_followup ==
  /\ Returns("ticket_creation_followup", ticket_creation_followup)
  /\ UNCHANGED <<builder, helpcentral>>

Call_ticket_details ==
  /\ Returns("ticket_details", ticket_details(ticket_url, ticket_number))
  /\ UNCHANGED <<builder, helpcentral>>

Call_hc_outage ==
  /\ Returns("hc_outage", hc_outage)
  /\ UNCHANGED <<builder, helpcentral>>

Next ==
  \/ \E r \in RouteKeys : Call_set_channel_name(r)
  \/ Call_feedback_block_kit
  \/ Call_thread_feedback_block_kit
  \/ Call_build_answer_blocks
  \/ Call_thread_block_kit
  \/ Call_feedback_update_block
  \/ Call_feedback_update_block_session
  \/ Call_self_help_link_block
  \/ Call_followup_block_kit
  \/ Call_followup_delay_message
  \/ Call_open_ticket_cta
  \/ Call_clicked_ticket_button
  \/ Call_ticket_creation_followup
  \/ Call_ticket_details
  \/ Call_hc_outage

Spec == Init /\ [][Next]_vars

----------------------------------------------------------------------------
(* Properties *)

IsAnswerCall == op \in {"build_answer_blocks", "thread_block_kit"}

\* the block list of the payload returned by an answer builder
RetBlocks == IF op = "build_answer_blocks" THEN ret.blocks ELSE ret

\* the index of the answer section in it
AnswerAt == IF op = "build_answer_blocks" THEN 2 ELSE 1

AnswerText == RetBlocks[AnswerAt].text.text

IsUpdateCall(o) == o \in {"feedback_update_block", "feedback_update_block_session"}

C2_ExactlyLimit ==
  (IsAnswerCall /\ llm_answer # None /\ Len(llm_answer) > SlackLimit) =>
    Len(AnswerText) = SlackLimit

\* C2 amended: an answer longer than 3000 characters gives an answer section
\* whose text has at most 3000 characters, and exactly 3000 when the answer
\* still has 3000 characters or more once its HTML entities are decoded.
C2_AtMostLimit ==
  (IsAnswerCall /\ llm_answer # None /\ Len(llm_answer) > SlackLimit) =>
    /\ Len(AnswerText) <= SlackLimit
    /\ Len(unescape(llm_answer)) >= SlackLimit => Len(AnswerText) = SlackLimit

C2_Witness ==
  /\ op = "thread_block_kit"
  /\ llm_answer # None /\ Len(llm_answer) > SlackLimit
  /\ IsAt(llm_answer, 1, Amp)
  /\ Len(ret[1].text.text) = SlackLimit

\* C3: with llm_answer absent or empty, build_answer_blocks returns a wrapper
\* of exactly one block, the section with the no-suggestion message that
\* mentions user_id, whatever the other fields are.
C3_NoSuggestion ==
  (op = "build_answer_blocks" /\ llm_answer \in {None, <<>>}) =>
    /\ DOMAIN ret = {"blocks"}
    /\ Len(ret.blocks) = 1
    /\ ret.blocks[1] =
         [type |-> "section",
          text |-> [type |-> "mrkdwn",
                    text |-> <<"Sorry, <@">>
                             \o (IF user_id = None THEN <<"N", "o", "n", "e">> ELSE user_id)
                             \o <<"> -- no suggestions have been found.">>]]

C3_Witness ==
  /\ op = "build_answer_blocks"
  /\ llm_answer = <<>>
  /\ user_id = None /\ bot_id # None /\ block_body = <<>>
  /\ Len(ret.blocks) = 1

\* the six blocks of an answer with one link
SixBlocks(blocks, link) ==
  /\ Len(blocks) = 6
  /\ blocks[1] = _mk_section(Preamble)
  /\ blocks[2].type = "section"
  /\ blocks[3] = _mk_section(<<LinkHintHeader, "* ">> \o link)
  /\ blocks[4] = [type |-> "divider"]
  /\ blocks[5] = _mk_section(FeedbackPrompt)
  /\ blocks[6].type = "actions"
  /\ Len(blocks[6].elements) = 2
  /\ blocks[6].elements[1].action_id = "vertex_positive"
  /\ blocks[6].elements[2].action_id = "vertex_negative"

\* C4 as stated: when llm_answer is non-empty and holds exactly one URL,
\* build_answer_blocks gives the six blocks preamble, answer, link hint
\* listing that URL, divider, feedback prompt, actions with the two
\* message-level buttons.
C4_OneUrlInAnswer ==
  (op = "build_answer_blocks" /\ Truthy(llm_answer)
     /\ Len(extract_links(llm_answer)) = 1) =>
    SixBlocks(ret.blocks, extract_links(llm_answer)[1])

\* C4 amended: when llm_answer is non-empty and its decoded text, cut to
\* 3000 characters, holds exactly one URL, build_answer_blocks gives the six
\* blocks preamble, answer, link hint listing that URL, divider, feedback
\* prompt, actions with the two message-level buttons.
C4_OneUrlInSlice ==
  (op = "build_answer_blocks" /\ Truthy(llm_answer)
     /\ Len(extract_links(ret.blocks[2].text.text)) = 1) =>
    SixBlocks(ret.blocks, extract_links(ret.blocks[2].text.text)[1])

C4_Witness ==
  /\ op = "build_answer_blocks"
  /\ Len(llm_answer) > SlackLimit
  /\ Len(ret.blocks) = 6
  /\ ret.blocks[3] = _mk_section(<<LinkHintHeader, "* ">> \o Http \o <<"a">>)

\* a button of the message-level feedback as the thread-level one
ThreadButton(b) ==
  [b EXCEPT !.action_id = IF @ = "vertex_positive" THEN "thread_positive"
                          ELSE IF @ = "vertex_negative" THEN "thread_negative"
                          ELSE @]

\* the blocks of build_answer_blocks without the preamble section and with
\* the identifiers of the feedback buttons made thread-level
ThreadView(blocks) ==
  LET rest == IF blocks[1] = _mk_section(Preamble) THEN Tail(blocks) ELSE blocks
  IN  [i \in 1..Len(rest) |->
         IF rest[i].type = "actions"
         THEN [rest[i] EXCEPT !.elements = [k \in 1..Len(@) |-> ThreadButton(@[k])]]
         ELSE rest[i]]

\* C5: in every builder state the blocks of thread_block_kit are those of
\* build_answer_blocks with the preamble section removed and the two button
\* identifiers replaced by thread_positive and thread_negative.
C5_ThreadIsBuildWithoutPreamble ==
  op = "thread_block_kit" =>
    ret = ThreadView(build_answer_blocks(llm_answer, user_id).blocks)

C5_Witness ==
  /\ op = "thread_block_kit"
  /\ Truthy(llm_answer)
  /\ Len(ret) = 5
  /\ ret[5].elements[1].action_id = "thread_positive"

\* item and item2 differ at most in the text of the text object
SameButText(item, item2) ==
  /\ DOMAIN item2 = DOMAIN item
  /\ \A f \in DOMAIN item \ {"text"} : item2[f] = item[f]
  /\ DOMAIN item2.text = DOMAIN item.text
  /\ \A f \in DOMAIN item.text \ {"text"} : item2.text[f] = item.text[f]

C7_NeverRaises == exc = NoExc

\* C8: ticket_details returns one section; with a ticket URL its text holds
\* the link <url|number> made of the URL and the ticket number, and without
\* one (absent or empty) it is the fixed failure message, whatever the
\* ticket number is.
C8_TicketDetails ==
  op = "ticket_details" =>
    /\ Len(ret.blocks) = 1
    /\ ret.blocks[1].type = "section"
    /\ LET txt  == ret.blocks[1].text.text
           num  == IF ticket_number = None THEN <<"N", "o", "n", "e">> ELSE ticket_number
           link == ticket_url \o <<"|">> \o num
       IN  IF ticket_url # None /\ ticket_url # <<>>
           THEN \E i \in 1..Len(txt) : IsAt(txt, i, link)
           ELSE txt = <<TicketFailed>>

C8_Witness ==
  /\ op = "ticket_details"
  /\ ticket_url = <<>> /\ ticket_number = TicketNumber
  /\ ret.blocks[1].text.text = <<TicketFailed>>

\* the bullet list of the first three of the links
FirstThree(links) ==
  <<"* ">> \o links[1]
  \o (IF Len(links) >= 2 THEN <<"\n", "* ">> \o links[2] ELSE <<>>)
  \o (IF Len(links) >= 3 THEN <<"\n", "* ">> \o links[3] ELSE <<>>)

\* C9: for a non-empty answer, build_answer_blocks and thread_block_kit put
\* a link-hint section after the answer section exactly when the text of the
\* answer section (decoded and cut) holds a URL, and the section lists the
\* first min(3, n) of its n URLs in their order, duplicates kept; without a
\* URL the feedback blocks follow the answer section directly.
C9_LinkHint ==
  (IsAnswerCall /\ Truthy(llm_answer)) =>
    LET links == extract_links(AnswerText)
    IN  IF links = <<>>
        THEN /\ Len(RetBlocks) = AnswerAt + 3
             /\ RetBlocks[AnswerAt + 1] = [type |-> "divider"]
        ELSE /\ Len(RetBlocks) = AnswerAt + 4
             /\ RetBlocks[AnswerAt + 1] =
                  _mk_section(<<LinkHintHeader>> \o FirstThree(links))
             /\ RetBlocks[AnswerAt + 2] = [type |-> "divider"]

C9_Witness ==
  /\ op = "build_answer_blocks"
  /\ llm_answer = LinkList(MaxLinks)
  /\ Len(ret.blocks) = 6
  /\ ret.blocks[3] = _mk_section(<<LinkHintHeader>> \o
       <<"* ">> \o Http \o <<"a">> \o <<"\n", "* ">> \o Http \o <<"b">>
       \o <<"\n", "* ">> \o Http \o <<"a">>)

\* C10: a call changes channel_name only if it is set_channel_name, and
\* block_body only if it is feedback_update_block or its alias on a
\* non-empty block_body, and then only the texts of its sections; every
\* other field of the builder, llm_link among them, and the ticket keep
\* the values they were constructed with.
C10_Frame ==
  [][ /\ UNCHANGED <<thread, question, user_id, channel_id, additional_details,
                     bot_id, llm_answer, llm_link>>
      /\ UNCHANGED <<ticket_number, ticket_url, hc_user_id>>
      /\ channel_name' # channel_name => op' = "set_channel_name"
      /\ block_body' # block_body =>
           /\ IsUpdateCall(op')
           /\ TruthyBlocks(block_body)
           /\ Len(block_body') = Len(block_body)
           /\ \A i \in 1..Len(block_body) :
                \/ block_body'[i] = block_body[i]
                \/ /\ IsTextSection(block_body[i])
                   /\ SameButText(block_body[i], block_body'[i]) ]_vars

C10_Witness ==
  /\ op = "build_answer_blocks"
  /\ Len(ret.blocks) = 6
  /\ llm_link = None
  /\ channel_name = <<"GCP">>

====
